---- MODULE Spec2Model ----
(***************************************************************************)
(* bruniceps: the sync orchestration pipeline of src/bruniceps.py.         *)
(*                                                                         *)
(* Strings and paths are sequences of tokens; the tokens ".", "-", " ",    *)
(* "/" are the separator characters the code formats and parses with.      *)
(* The file system is the set of existing directories plus the sequence of *)
(* regular files in modification-time order (oldest first).                *)
(***************************************************************************)
EXTENDS Integers, Sequences, FiniteSets, TLC

VARIABLES
    config,           \* the raw merged configuration handed to parse_config
    run,              \* which invocation of the program this is
    pc,               \* position in main / sync / process_episode
    si, ei,           \* sync's loop positions: series index, episode index
    errors,           \* sync's failure map: "catalog/series/ep" -> error type
    exc,              \* the exception in flight, "" when there is none
    exit_code,        \* process exit status, -1 while running
    dirs,             \* file system: existing directories
    files,            \* file system: regular files, oldest mtime first
    downloaded_file,  \* process_episode local: name returned by download_source
    steps,            \* log: steps the current pipeline has executed
    calls,            \* log: external tool invocations of the current pipeline
    outcomes,         \* log: <<si, ei, terminal state>> of this run's pipelines
    previous,         \* log: the outcomes of the previous run
    effects,          \* log: <<kind, si, ei>> of the side effects of this run
    config_files,     \* load_config: the parsed documents still to be merged
    raw,              \* load_config: the merged tree so far
    n_merged,         \* load_config: how many documents the loop has merged
    src_duration,     \* verify_encoded_video_duration: duration probed of src
    dst_duration      \* verify_encoded_video_duration: duration probed of dst

\* the locals of load_config and of verify_encoded_video_duration
load_vars == <<config_files, raw, n_merged>>
probe_vars == <<src_duration, dst_duration>>

vars == <<config, run, pc, si, ei, errors, exc, exit_code, dirs, files,
          downloaded_file, steps, calls, outcomes, previous, effects,
          load_vars, probe_vars>>

-----------------------------------------------------------------------------
(* Bounds *)

MaxSeries == 2
MaxEpisodes == 2
MaxRuns == 2
MaxDepth == 2
MaxFiles == 3
MaxDelta == 65

-----------------------------------------------------------------------------
(* Values *)

None == <<"None">>

Truthy(v) == v # None /\ v # <<>>

\* DEFAULT_ENCODING_PROFILES, as updated by meta.encoding_profiles
DEFAULT_ENCODING_PROFILES ==
    (<<"default">> :> <<"-c:v", " ", "libsvtav1">>) @@ (<<"original">> :> None)

DEFAULT_TMP_DIR == <<"/tmp", "/", "bruniceps">>

\* meta.catalogs of the configurations explored: one catalog, "tv"
Catalogs == (<<"tv">> :> [key |-> <<"tv">>, dir |-> <<"/lib">>])

CatalogRefs == {<<"tv">>, <<"xx">>}

RECURSIVE SeriesKey(_)
\* the series table's keys (distinct, being keys of a mapping): a, a-b, a-b-b
SeriesKey(i) == IF i = 1 THEN <<"a">> ELSE SeriesKey(i - 1) \o <<"-", "b">>

SeriesTitle(i) == <<"Show", ToString(i)>>


EpisodeKeys == {<<"b">>, <<"b", "-", "b">>}

\* a source locator names the file the downloader writes
Sources == {<<"v", ".", "mkv">>, <<"v">>}

Formats == {None, <<"tar", ".", "gz">>}

Episodes ==
    {e \in [key : EpisodeKeys, source : Sources, encoding : {<<"default">>},
            format : Formats, dir : {None}] :
        e.format # None => e.source = <<"v", ".", "mkv">>}

SeqsUpTo(S, n) == UNION {[1..k -> S] : k \in 0..n}

\* a series entry as configured: its catalog reference, whether it has the
\* required title, and a non-empty episode list of at most n episodes
SeriesEntries(n) ==
    [catalog : CatalogRefs, dir : {None}, titled : BOOLEAN,
     episodes : SeqsUpTo(Episodes, n) \ {<<>>}]

\* the series tables explored, in configuration order: at most n series
\* holding at most budget episodes together
RECURSIVE SeriesTables(_, _)
SeriesTables(n, budget) ==
    {<<>>} \cup
    (IF n = 0 \/ budget = 0 THEN {}
     ELSE UNION {{<<s>> \o rest :
                    rest \in SeriesTables(n - 1, budget - Len(s.episodes))} :
                 s \in SeriesEntries(budget)})

SeriesLists == SeriesTables(MaxSeries, MaxEpisodes) \ {<<>>}

\* the merged configurations explored (the tree load_config hands to
\* parse_config, with the defaults of parse_config filled in)
Configs ==
    {[meta |-> [tmp_dir |-> DEFAULT_TMP_DIR,
                encoding_profiles |-> DEFAULT_ENCODING_PROFILES,
                catalogs |-> Catalogs],
      series |-> [i \in 1..Len(s) |->
                    [key |-> SeriesKey(i),
                     title |-> IF s[i].titled THEN SeriesTitle(i) ELSE None,
                     catalog |-> s[i].catalog, dir |-> s[i].dir,
                     episodes |-> s[i].episodes]]] : s \in SeriesLists}

\* Path(s): the empty string is the current directory
Path(s) == IF s = <<>> THEN <<".">> ELSE s

\* series_dir = Path(series_dir) and ep.dir = Path(ep.dir), unless None
OptionalPath(d) == IF d = None THEN None ELSE Path(d)

\* the dir overrides a configuration can give: none, the empty string, a path
Overrides(d) == {None, <<>>, d}

\* the encoding names an episode can give: the two built-in profiles, a
\* profile configured empty, and a name that is in no table
EncodingNames == {<<"default">>, <<"original">>, <<"raw">>, <<"hq">>}

\* meta.encoding_profiles: a list of mappings that update the built-in table
UserProfiles == <<(<<"raw">> :> <<>>)>>

RECURSIVE UpdateAll(_, _)
UpdateAll(table, items) ==
    IF items = <<>> THEN table
    ELSE UpdateAll(Head(items) @@ table, Tail(items))

\* the configurations of one series with one episode, over the dir overrides
\* of the two, the encoding name and the catalog's directory
EpisodeConfigs ==
    {[meta |-> [tmp_dir |-> DEFAULT_TMP_DIR,
                encoding_profiles |-> UpdateAll(DEFAULT_ENCODING_PROFILES, UserProfiles),
                catalogs |-> (<<"tv">> :> [key |-> <<"tv">>, dir |-> Path(lib)])],
      series |-> <<[key |-> SeriesKey(1), title |-> SeriesTitle(1),
                    catalog |-> <<"tv">>, dir |-> OptionalPath(sdir),
                    episodes |-> <<[key |-> <<"b">>, source |-> <<"v", ".", "mkv">>,
                                    encoding |-> name, format |-> None,
                                    dir |-> OptionalPath(edir)]>>]>>] :
        lib \in {<<"/lib">>, <<"/srv">>},
        sdir \in Overrides(<<"/s">>), edir \in Overrides(<<"/e">>),
        name \in EncodingNames}

-----------------------------------------------------------------------------
(* Paths *)

\* Path.__truediv__
Join(dir, name) == dir \o <<"/">> \o name

\* position of the last "." of a name, 0 when there is none (str.rfind)
RECURSIVE RFindDot(_)
RFindDot(name) ==
    IF name = <<>> THEN 0
    ELSE IF name[Len(name)] = "." THEN Len(name)
    ELSE RFindDot(SubSeq(name, 1, Len(name) - 1))

\* PurePath.suffix: the last dot counts unless it starts or ends the name
\* (CPython 3.10 to 3.13; the match statement of main needs 3.10)
Suffix(name) ==
    LET p == RFindDot(name)
    IN IF 1 < p /\ p < Len(name) THEN SubSeq(name, p, Len(name)) ELSE <<>>

\* PurePath.stem
Stem(name) == SubSeq(name, 1, Len(name) - Len(Suffix(name)))

\* str.lstrip('.')
RECURSIVE LStripDot(_)
LStripDot(s) == IF s # <<>> /\ Head(s) = "." THEN LStripDot(Tail(s)) ELSE s

\* d is p or lies below p
Under(p, d) ==
    \/ d = p
    \/ /\ Len(d) > Len(p)
       /\ SubSeq(d, 1, Len(p) + 1) = p \o <<"/">>

-----------------------------------------------------------------------------
(* File system *)

\* Path.iterdir(), oldest first
ListDir(fs, dir) == SelectSeq(fs, LAMBDA f : f.dir = dir)

\* writing a file creates it or replaces its content; either way it is the newest
WriteFile(fs, dir, name, data) ==
    SelectSeq(fs, LAMBDA f : ~(f.dir = dir /\ f.name = name))
        \o <<[dir |-> dir, name |-> name, data |-> data]>>

ReadFile(fs, dir, name) ==
    LET hit == SelectSeq(fs, LAMBDA f : f.dir = dir /\ f.name = name)
    IN IF hit = <<>> THEN None ELSE hit[1].data

\* shutil.rmtree(path)
RmTreeDirs(ds, path) == {d \in ds : ~Under(path, d)}
RmTreeFiles(fs, path) == SelectSeq(fs, LAMBDA f : ~Under(path, f.dir))

\* os.makedirs(path, exist_ok=True)
ensure_dir(ds, path) == ds \cup {path}

\* variant: compares the whole file name, extension included
file_exists_with_basename_name(fs, directory, base_name) ==
    \E i \in 1..Len(fs) : fs[i].dir = directory /\ fs[i].name = base_name

\* any(f.stem == base_name for f in directory.iterdir() if f.is_file())
file_exists_with_basename(fs, directory, base_name) ==
    \E i \in 1..Len(fs) : fs[i].dir = directory /\ Stem(fs[i].name) = base_name

\* hashlib digests of equal length content agree exactly when the content does
files_identical(fs, d1, n1, d2, n2) == ReadFile(fs, d1, n1) = ReadFile(fs, d2, n2)

-----------------------------------------------------------------------------
(* process_episode: the values it derives from its arguments *)

TheSeries == config.series[si]
TheEpisode == TheSeries.episodes[ei]
TheCatalog == config.meta.catalogs[TheSeries.catalog]

task_id(series, ep) == series.key \o <<"-">> \o ep.key

base_filename(series, ep) == series.title \o <<" ">> \o ep.key

\* variant: the series' override is looked at last and so wins
target_dir_series_last(ep, series, catalog) ==
    IF series.dir # None THEN series.dir
    ELSE IF ep.dir # None THEN ep.dir
    ELSE Join(catalog.dir, series.title)

\* target_dir = catalog.dir / title; if series.dir: ...; if ep.dir: ...
\* (a Path is truthy whatever it holds, so each test is a test for None)
target_dir(ep, series, catalog) ==
    IF ep.dir # None THEN ep.dir
    ELSE IF series.dir # None THEN series.dir
    ELSE Join(catalog.dir, series.title)

task_dir(meta, series, ep) == Join(meta.tmp_dir, task_id(series, ep))

downloaded_dir(meta, series, ep) == Join(task_dir(meta, series, ep), <<"downloaded">>)

encoded_dir(meta, series, ep) == Join(task_dir(meta, series, ep), <<"encoded">>)

\* ep.format if ep.format else downloaded_file.suffix.lstrip('.')
ResolveExt(ep, downloaded) ==
    IF Truthy(ep.format) THEN ep.format ELSE LStripDot(Suffix(downloaded))

encoded_file(ep, downloaded) ==
    Stem(downloaded) \o <<"_encoded">> \o <<".">> \o ResolveExt(ep, downloaded)

target_file(series, ep, downloaded) ==
    base_filename(series, ep) \o <<".">> \o ResolveExt(ep, downloaded)

\* meta.encoding_profiles.get(ep.encoding)
encoding_args(meta, ep) ==
    IF ep.encoding \in DOMAIN meta.encoding_profiles
    THEN meta.encoding_profiles[ep.encoding] ELSE None

\* sync's key of an episode in the failure map
ErrorKey(catalog, series, ep) ==
    catalog.key \o <<"/">> \o series.key \o <<"/">> \o ep.key

-----------------------------------------------------------------------------
(* State after construction *)

NoCalls == [downloader |-> 0, prober |-> 0, encoder |-> 0, encoding_args |-> None]

NoErrors == [k \in {} |-> None]

\* the program is started: nothing has run, the file system is empty
Boot ==
    /\ run = 1
    /\ si = 0
    /\ ei = 0
    /\ errors = NoErrors
    /\ exc = ""
    /\ exit_code = -1
    /\ dirs = {}
    /\ files = <<>>
    /\ downloaded_file = None
    /\ steps = <<>>
    /\ calls = NoCalls
    /\ outcomes = <<>>
    /\ previous = <<>>
    /\ effects = {}

\* no document is being merged and no duration is being compared
Idle ==
    /\ config_files = <<>>
    /\ raw = None
    /\ n_merged = 0
    /\ src_duration = 0
    /\ dst_duration = 0

Init ==
    /\ config \in Configs
    /\ pc = "main"
    /\ Boot
    /\ Idle

-----------------------------------------------------------------------------
(* main and sync *)

\* val['title'], val['catalog'], Episode(**ep): a missing required field raises
parse_config(tree) == \A i \in 1..Len(tree.series) : tree.series[i].title # None

\* main: load_config, then dispatch to sync
\* an exception of load_config leaves main: the interpreter exits with status 1
Main ==
    /\ pc = "main"
    /\ IF parse_config(config)
       THEN /\ pc' = "sync"
            /\ UNCHANGED <<exc, exit_code>>
       ELSE /\ pc' = "exit"
            /\ exc' = "KeyError"
            /\ exit_code' = 1
    /\ UNCHANGED <<load_vars, probe_vars, config, run, si, ei, errors, dirs, files, downloaded_file,
                   steps, calls, outcomes, previous, effects>>

\* sync: errors = {}, enter the loop over config.series
SyncStart ==
    /\ pc = "sync"
    /\ errors' = NoErrors
    /\ si' = 1
    /\ ei' = 0
    /\ pc' = "sync_series"
    /\ UNCHANGED <<load_vars, probe_vars, config, run, exc, exit_code, dirs, files, downloaded_file,
                   steps, calls, outcomes, previous, effects>>

\* variant: the loop over a series' episodes is entered at its last episode
SyncSeries_from_last ==
    /\ pc = "sync_series"
    /\ IF si > Len(config.series)
       THEN /\ pc' = "report"
            /\ UNCHANGED <<ei, exc, exit_code>>
       ELSE IF TheSeries.catalog \notin DOMAIN config.meta.catalogs
       THEN /\ pc' = "exit"
            /\ exc' = "KeyError"
            /\ exit_code' = 1
            /\ UNCHANGED ei
       ELSE /\ pc' = "sync_episode"
            /\ ei' = Len(TheSeries.episodes)
            /\ UNCHANGED <<exc, exit_code>>
    /\ UNCHANGED <<load_vars, probe_vars, config, run, si, errors, dirs, files, downloaded_file,
                   steps, calls, outcomes, previous, effects>>

\* for series in config.series: catalog = config.meta.catalogs[series.catalog]
\* the lookup is outside the try: its KeyError leaves sync and main
SyncSeries ==
    /\ pc = "sync_series"
    /\ IF si > Len(config.series)
       THEN /\ pc' = "report"
            /\ UNCHANGED <<ei, exc, exit_code>>
       ELSE IF TheSeries.catalog \notin DOMAIN config.meta.catalogs
       THEN /\ pc' = "exit"
            /\ exc' = "KeyError"
            /\ exit_code' = 1
            /\ UNCHANGED ei
       ELSE /\ pc' = "sync_episode"
            /\ ei' = 1
            /\ UNCHANGED <<exc, exit_code>>
    /\ UNCHANGED <<load_vars, probe_vars, config, run, si, errors, dirs, files, downloaded_file,
                   steps, calls, outcomes, previous, effects>>

\* for ep in series.episodes: try: process_episode(ep, series, catalog, meta)
SyncEpisode ==
    /\ pc = "sync_episode"
    /\ IF ei > Len(TheSeries.episodes)
       THEN /\ si' = si + 1
            /\ ei' = 0
            /\ pc' = "sync_series"
       ELSE /\ pc' = "resolve"
            /\ UNCHANGED <<si, ei>>
    /\ UNCHANGED <<load_vars, probe_vars, config, run, errors, exc, exit_code, dirs, files,
                   downloaded_file, steps, calls, outcomes, previous, effects>>

\* process_episode returned: the loop goes on to the next episode
SyncReturn ==
    /\ pc \in {"done", "skipped"}
    /\ outcomes' = Append(outcomes, <<si, ei, IF pc = "done" THEN "Done" ELSE "Skipped">>)
    /\ ei' = ei + 1
    /\ pc' = "sync_episode"
    /\ downloaded_file' = None
    /\ steps' = <<>>
    /\ calls' = NoCalls
    /\ UNCHANGED <<load_vars, probe_vars, config, run, si, errors, exc, exit_code, dirs, files,
                   previous, effects>>

\* variant: the error is recorded and the loops are left
SyncCatch_abort ==
    /\ pc = "raised"
    /\ errors' = (ErrorKey(TheCatalog, TheSeries, TheEpisode) :> exc) @@ errors
    /\ outcomes' = Append(outcomes, <<si, ei, "Failed">>)
    /\ exc' = ""
    /\ pc' = "report"
    /\ downloaded_file' = None
    /\ steps' = <<>>
    /\ calls' = NoCalls
    /\ UNCHANGED <<load_vars, probe_vars, config, run, si, ei, exit_code, dirs, files, previous, effects>>

\* except Exception as e: errors[f"{catalog.key}/{series.key}/{ep.key}"] = ...
SyncCatch ==
    /\ pc = "raised"
    /\ errors' = (ErrorKey(TheCatalog, TheSeries, TheEpisode) :> exc) @@ errors
    /\ outcomes' = Append(outcomes, <<si, ei, "Failed">>)
    /\ exc' = ""
    /\ ei' = ei + 1
    /\ pc' = "sync_episode"
    /\ downloaded_file' = None
    /\ steps' = <<>>
    /\ calls' = NoCalls
    /\ UNCHANGED <<load_vars, probe_vars, config, run, si, exit_code, dirs, files, previous, effects>>

\* the report after the loop; sync returns None, main returns, status 0
SyncReport ==
    /\ pc = "report"
    /\ pc' = "exit"
    /\ exit_code' = 0
    /\ UNCHANGED <<load_vars, probe_vars, config, run, si, ei, errors, exc, dirs, files, downloaded_file,
                   steps, calls, outcomes, previous, effects>>

\* the program is invoked again with the same configuration
Rerun ==
    /\ pc = "exit"
    /\ run < MaxRuns
    /\ run' = run + 1
    /\ pc' = "main"
    /\ si' = 0
    /\ ei' = 0
    /\ errors' = NoErrors
    /\ exc' = ""
    /\ exit_code' = -1
    /\ outcomes' = <<>>
    /\ previous' = outcomes
    /\ effects' = {}
    /\ UNCHANGED <<load_vars, probe_vars, config, dirs, files, downloaded_file, steps, calls>>

-----------------------------------------------------------------------------
(* process_episode, one action per step *)

Raise(e) == pc' = "raised" /\ exc' = e

Goto(label) == pc' = label /\ UNCHANGED exc

Call(tool, n) == calls' = [calls EXCEPT ![tool] = @ + n]

\* a side effect of the current pipeline
Effect(kind) == <<kind, si, ei>>

\* a statement of process_episode completes and control falls through to the
\* next one, or it raises and the exception leaves process_episode
End(step, ok, next, e) ==
    /\ steps' = Append(steps, [step |-> step, ok |-> ok])
    /\ IF ok THEN Goto(next) ELSE Raise(e)

\* 0. target_dir by the override precedence; ensure_dir(target_dir)
ResolveTarget ==
    /\ pc = "resolve"
    /\ LET dir == target_dir(TheEpisode, TheSeries, TheCatalog)
       IN \E ok \in BOOLEAN :
            /\ ok \/ dir \notin dirs
            /\ dirs' = IF ok THEN ensure_dir(dirs, dir) ELSE dirs
            /\ effects' = IF ok THEN effects \cup {Effect("mkdir")} ELSE effects
            /\ End("resolve", ok, "skip_check", "OSError")
    /\ UNCHANGED <<load_vars, probe_vars, config, run, si, ei, errors, exit_code, files,
                   downloaded_file, calls, outcomes, previous>>

\* if file_exists_with_basename(target_dir, base_filename): return
SkipCheck ==
    /\ pc = "skip_check"
    /\ IF file_exists_with_basename(files,
                                    target_dir(TheEpisode, TheSeries, TheCatalog),
                                    base_filename(TheSeries, TheEpisode))
       THEN End("skip_check", TRUE, "skipped", "")
       ELSE End("skip_check", TRUE, "mktemp", "")
    /\ UNCHANGED <<load_vars, probe_vars, config, run, si, ei, errors, exit_code, dirs, files,
                   downloaded_file, calls, outcomes, previous, effects>>

\* 1. ensure_dir(downloaded_dir): creates task_dir and task_dir/downloaded
MakeTaskDir ==
    /\ pc = "mktemp"
    /\ LET tdir == task_dir(config.meta, TheSeries, TheEpisode)
           ddir == downloaded_dir(config.meta, TheSeries, TheEpisode)
       IN \E ok \in BOOLEAN :
            /\ ok \/ ddir \notin dirs
            /\ dirs' = IF ok THEN ensure_dir(ensure_dir(dirs, tdir), ddir) ELSE dirs
            /\ effects' = IF ok THEN effects \cup {Effect("mktemp")} ELSE effects
            /\ End("mktemp", ok, "download", "OSError")
    /\ UNCHANGED <<load_vars, probe_vars, config, run, si, ei, errors, exit_code, files,
                   downloaded_file, calls, outcomes, previous>>

DownloaderResults == {"error", "nothing", "file"}

\* download_source: run the downloader, then return the newest file of the directory
Download ==
    /\ pc = "download"
    /\ Call("downloader", 1)
    /\ effects' = effects \cup {Effect("downloader")}
    /\ LET ddir == downloaded_dir(config.meta, TheSeries, TheEpisode)
       IN \E r \in DownloaderResults :
            LET written == IF r = "file"
                           THEN WriteFile(files, ddir, TheEpisode.source, "source")
                           ELSE files
                listing == ListDir(written, ddir)
            IN IF r = "error"
               THEN /\ End("download", FALSE, "", "CalledProcessError")
                    /\ UNCHANGED <<files, downloaded_file>>
               ELSE IF listing = <<>>
               THEN /\ End("download", FALSE, "", "FileNotFoundError")
                    /\ UNCHANGED <<files, downloaded_file>>
               ELSE /\ files' = written
                    /\ downloaded_file' = listing[Len(listing)].name
                    /\ End("download", TRUE, "verify_source", "")
    /\ UNCHANGED <<load_vars, probe_vars, config, run, si, ei, errors, exit_code, dirs, outcomes, previous>>

\* verify_video(downloaded_file): a prober failure becomes ValueError
VerifySource ==
    /\ pc = "verify_source"
    /\ Call("prober", 1)
    /\ effects' = effects \cup {Effect("prober")}
    /\ \E ok \in BOOLEAN : End("verify_source", ok, "encode", "ValueError")
    /\ UNCHANGED <<load_vars, probe_vars, config, run, si, ei, errors, exit_code, dirs, files,
                   downloaded_file, outcomes, previous>>

EncodeResults == {"mkdir_error", "error", "ok"}

\* encode_video: copy when the profile is None or empty, else run the encoder
encode_video(fs, in_dir, in_name, out_dir, out_name, args) ==
    IF ~Truthy(args)
    THEN WriteFile(fs, out_dir, out_name, ReadFile(fs, in_dir, in_name))
    ELSE WriteFile(fs, out_dir, out_name, "encoded")

\* 2. ensure_dir(encoded_dir); resolve ext, encoded_file, encoding_args; encode_video
Encode ==
    /\ pc = "encode"
    /\ LET ddir == downloaded_dir(config.meta, TheSeries, TheEpisode)
           edir == encoded_dir(config.meta, TheSeries, TheEpisode)
           args == encoding_args(config.meta, TheEpisode)
       IN \E r \in EncodeResults :
            /\ r = "mkdir_error" => edir \notin dirs
            /\ IF r = "mkdir_error"
               THEN /\ End("encode", FALSE, "", "OSError")
                    /\ UNCHANGED <<dirs, files, calls, effects>>
               ELSE /\ dirs' = ensure_dir(dirs, edir)
                    /\ IF Truthy(args)
                       THEN /\ calls' = [calls EXCEPT !.encoder = @ + 1,
                                                       !.encoding_args = args]
                            /\ effects' = effects \cup {Effect("mkdir"), Effect("encoder")}
                       ELSE /\ UNCHANGED calls
                            /\ effects' = effects \cup {Effect("mkdir")}
                    /\ files' = IF r = "ok"
                                THEN encode_video(files, ddir, downloaded_file, edir,
                                         encoded_file(TheEpisode, downloaded_file), args)
                                ELSE files
                    /\ End("encode", r = "ok", "verify_encoded",
                           IF Truthy(args) THEN "CalledProcessError" ELSE "OSError")
    /\ UNCHANGED <<load_vars, probe_vars, config, run, si, ei, errors, exit_code, downloaded_file,
                   outcomes, previous>>

\* verify_video(encoded_file)
VerifyEncoded ==
    /\ pc = "verify_encoded"
    /\ Call("prober", 1)
    /\ effects' = effects \cup {Effect("prober")}
    /\ \E ok \in BOOLEAN : End("verify_encoded", ok, "verify_duration", "ValueError")
    /\ UNCHANGED <<load_vars, probe_vars, config, run, si, ei, errors, exit_code, dirs, files,
                   downloaded_file, outcomes, previous>>

\* durations the prober reports, in tenths of a second
Durations == {1000, 949, 939}

\* variant: the tolerance is taken from the encoded duration
DurationMismatch_dst(src, dst) ==
    LET diff == IF src >= dst THEN src - dst ELSE dst - src
    IN 50 * diff > (IF 2500 >= dst THEN 2500 ELSE dst)

\* variant: a difference equal to the tolerance is a mismatch too
DurationMismatch_inclusive(src, dst) ==
    LET diff == IF src >= dst THEN src - dst ELSE dst - src
    IN 50 * diff >= (IF 2500 >= src THEN 2500 ELSE src)

\* abs(src - dst) > max(5.0, 0.02 * src), in tenths of a second
DurationMismatch(src, dst) ==
    LET diff == IF src >= dst THEN src - dst ELSE dst - src
    IN 50 * diff > (IF 2500 >= src THEN 2500 ELSE src)

\* variant: a failed duration check is noted and the pipeline goes on
VerifyDuration_swallow ==
    /\ pc = "verify_duration"
    /\ effects' = effects \cup {Effect("prober")}
    /\ \E src_ok \in BOOLEAN, dst_ok \in BOOLEAN, src \in Durations, dst \in Durations :
         /\ Call("prober", IF src_ok THEN 2 ELSE 1)
         /\ steps' = Append(steps, [step |-> "verify_duration",
                                    ok |-> src_ok /\ dst_ok /\ ~DurationMismatch(src, dst)])
         /\ Goto("place")
    /\ UNCHANGED <<load_vars, probe_vars, config, run, si, ei, errors, exit_code, dirs, files,
                   downloaded_file, outcomes, previous>>

\* verify_encoded_video_duration(downloaded_file, encoded_file):
\* get_video_duration of each file (a prober failure becomes ValueError), then compare
VerifyDuration ==
    /\ pc = "verify_duration"
    /\ effects' = effects \cup {Effect("prober")}
    /\ \E src_ok \in BOOLEAN, dst_ok \in BOOLEAN, src \in Durations, dst \in Durations :
         /\ Call("prober", IF src_ok THEN 2 ELSE 1)
         /\ End("verify_duration",
                src_ok /\ dst_ok /\ ~DurationMismatch(src, dst), "place", "ValueError")
    /\ UNCHANGED <<load_vars, probe_vars, config, run, si, ei, errors, exit_code, dirs, files,
                   downloaded_file, outcomes, previous>>

CopyResults == {"ok", "error", "partial", "damaged"}

\* 3. shutil.copy(encoded_file, target_file)
\* the copy may fail before writing, fail midway, or write other bytes unnoticed
Place ==
    /\ pc = "place"
    /\ LET edir == encoded_dir(config.meta, TheSeries, TheEpisode)
           tdir == target_dir(TheEpisode, TheSeries, TheCatalog)
           name == target_file(TheSeries, TheEpisode, downloaded_file)
           data == ReadFile(files, edir, encoded_file(TheEpisode, downloaded_file))
       IN \E r \in CopyResults :
            /\ files' = IF r = "ok" THEN WriteFile(files, tdir, name, data)
                        ELSE IF r = "error" THEN files
                        ELSE WriteFile(files, tdir, name, "damaged")
            /\ effects' = IF r = "error" THEN effects ELSE effects \cup {Effect("place")}
            /\ End("place", r \in {"ok", "damaged"}, "verify_placement", "OSError")
    /\ UNCHANGED <<load_vars, probe_vars, config, run, si, ei, errors, exit_code, dirs,
                   downloaded_file, calls, outcomes, previous>>

\* verify_copied_file_identical(encoded_file, target_file)
VerifyPlacement ==
    /\ pc = "verify_placement"
    /\ End("verify_placement",
           files_identical(files,
                           encoded_dir(config.meta, TheSeries, TheEpisode),
                           encoded_file(TheEpisode, downloaded_file),
                           target_dir(TheEpisode, TheSeries, TheCatalog),
                           target_file(TheSeries, TheEpisode, downloaded_file)),
           "cleanup", "ValueError")
    /\ UNCHANGED <<load_vars, probe_vars, config, run, si, ei, errors, exit_code, dirs, files,
                   downloaded_file, calls, outcomes, previous, effects>>

\* try: shutil.rmtree(task_dir); a failure is printed as a warning
clear_task_dir(removed) ==
    LET tdir == task_dir(config.meta, TheSeries, TheEpisode)
    IN IF removed
       THEN /\ dirs' = RmTreeDirs(dirs, tdir)
            /\ files' = RmTreeFiles(files, tdir)
       ELSE UNCHANGED <<dirs, files>>

\* variant: the failure of the removal is not caught
Cleanup_raise ==
    /\ pc = "cleanup"
    /\ \E removed \in BOOLEAN :
         /\ clear_task_dir(removed)
         /\ End("cleanup", removed, "done", "OSError")
    /\ UNCHANGED <<load_vars, probe_vars, config, run, si, ei, errors, exit_code,
                   downloaded_file, calls, outcomes, previous, effects>>

\* 4. clear_task_dir(task_dir); Done
Cleanup ==
    /\ pc = "cleanup"
    /\ \E removed \in BOOLEAN : clear_task_dir(removed)
    /\ End("cleanup", TRUE, "done", "")
    /\ UNCHANGED <<load_vars, probe_vars, config, run, si, ei, errors, exit_code,
                   downloaded_file, calls, outcomes, previous, effects>>

-----------------------------------------------------------------------------

Next ==
    \/ Main
    \/ SyncStart
    \/ SyncSeries
    \/ SyncEpisode
    \/ ResolveTarget
    \/ SkipCheck
    \/ MakeTaskDir
    \/ Download
    \/ VerifySource
    \/ Encode
    \/ VerifyEncoded
    \/ VerifyDuration
    \/ Place
    \/ VerifyPlacement
    \/ Cleanup
    \/ SyncReturn
    \/ SyncCatch
    \/ SyncReport
    \/ Rerun

Spec == Init /\ [][Next]_vars

\* the program run on a configuration of one episode
EpisodeInit ==
    /\ config \in EpisodeConfigs
    /\ pc = "main"
    /\ Boot
    /\ Idle

EpisodeSpec == EpisodeInit /\ [][Next]_vars

-----------------------------------------------------------------------------
(* load_config and _deep_merge_dict *)

\* A parsed YAML value is tagged with its Python type t: a dict has the
\* mapping v from its keys, a scalar or a list has its text.
NoItems == [key \in {} |-> key]

Dict(f) == [t |-> "dict", text |-> "", v |-> f]

Leaf(type, text) == [t |-> type, text |-> text, v |-> NoItems]

EmptyDict == Dict(NoItems)

\* the scalars and lists of the documents explored: 'c', '', [1], [], 0, False, None
Leaves ==
    {Leaf("str", "c"), Leaf("str", ""), Leaf("list", "1"), Leaf("list", ""),
     Leaf("int", "0"), Leaf("bool", "False"), Leaf("null", "None")}

TopKeys == {"a", "b"}
NestedKeys == {"c"}

Maps(K, V) == UNION {[D -> V] : D \in SUBSET K}

\* the mappings over keys that nest mappings at most depth levels deep
RECURSIVE Dicts(_, _)
Dicts(keys, depth) ==
    {Dict(f) : f \in Maps(keys, Leaves \cup (IF depth > 1
                                             THEN Dicts(NestedKeys, depth - 1)
                                             ELSE {}))}

\* yaml.safe_load of a configuration file
Documents == Dicts(TopKeys, MaxDepth)

\* the lists of parsed configuration files explored: one document, then a
\* second document repeated (a path may be listed more than once)
ConfigFileLists ==
    {[i \in 1..MaxFiles |-> IF i = 1 THEN b ELSE a] :
        a \in Documents, b \in Documents}

isinstance_dict(value) == value.t = "dict"

\* bool(value)
bool(value) ==
    CASE value.t = "dict" -> DOMAIN value.v # {}
      [] value.t = "str" -> value.text # ""
      [] value.t = "list" -> value.text # ""
      [] value.t = "int" -> value.text # "0"
      [] value.t = "bool" -> value.text = "True"
      [] value.t = "null" -> FALSE

\* key in destination, for a destination that is not a dict: a substring
\* test on a str (the texts explored have at most one character), a
\* membership test on a list (no list explored holds a key)
Contains(destination, key) == destination.t = "str" /\ destination.text = key

\* the merge raised: kinds are the exception types its failing keys raise
Raised(kinds) == [t |-> "raise", kinds |-> kinds]

\* one iteration of the loop on a destination that is not a dict:
\* setdefault is no attribute of it, `in` needs an iterable, and neither a
\* str nor a list takes an item assignment by key
NotADict(key, value, destination) ==
    IF isinstance_dict(value) THEN {"AttributeError"}
    ELSE IF destination.t \in {"int", "bool", "null"} THEN {"TypeError"}
    ELSE IF ~Contains(destination, key) \/ bool(value) THEN {"TypeError"}
    ELSE {}

\* variant: shallow dict.update, the source's value always replaces
update_existing_always(value, existing) == value

\* variant: two lists are concatenated
update_existing_extend(value, existing) ==
    IF value.t = "list" /\ existing.t = "list"
    THEN Leaf("list", existing.text \o value.text)
    ELSE IF bool(value) THEN value ELSE existing

\* elif value: destination[key] = value
update_existing(value, existing) == IF bool(value) THEN value ELSE existing

\* _deep_merge_dict(source, destination): the destination afterwards, or Raised
RECURSIVE _deep_merge_dict(_, _)
_deep_merge_dict(source, destination) ==
    IF ~isinstance_dict(destination)
    THEN LET kinds == UNION {NotADict(key, source.v[key], destination) :
                                key \in DOMAIN source.v}
         IN IF kinds = {} THEN destination ELSE Raised(kinds)
    ELSE LET item(key) ==
                 LET value == source.v[key]
                 IN IF isinstance_dict(value)
                    THEN _deep_merge_dict(value,
                             IF key \in DOMAIN destination.v
                             THEN destination.v[key] ELSE EmptyDict)
                    ELSE IF key \notin DOMAIN destination.v THEN value
                    ELSE update_existing(value, destination.v[key])
             failing == {key \in DOMAIN source.v : item(key).t = "raise"}
         IN IF failing # {}
            THEN Raised(UNION {item(key).kinds : key \in failing})
            ELSE Dict([key \in DOMAIN source.v \cup DOMAIN destination.v |->
                         IF key \in DOMAIN source.v
                         THEN item(key) ELSE destination.v[key]])

\* load_config is entered with the configuration files parsed: raw = {}
LoadInit ==
    /\ config = None
    /\ pc = "load_config"
    /\ Boot
    /\ config_files \in ConfigFileLists
    /\ raw = EmptyDict
    /\ n_merged = 0
    /\ src_duration = 0
    /\ dst_duration = 0

\* for config_file in config_files: _deep_merge_dict(part, raw)
\* an exception leaves load_config and main: the interpreter exits with status 1
LoadConfigMerge ==
    /\ pc = "load_config"
    /\ n_merged < Len(config_files)
    /\ LET merged == _deep_merge_dict(config_files[n_merged + 1], raw)
       IN IF merged.t = "raise"
          THEN /\ exc' \in merged.kinds
               /\ pc' = "exit"
               /\ exit_code' = 1
               /\ UNCHANGED <<raw, n_merged>>
          ELSE /\ raw' = merged
               /\ n_merged' = n_merged + 1
               /\ UNCHANGED <<pc, exc, exit_code>>
    /\ UNCHANGED <<probe_vars, config, config_files, run, si, ei, errors, dirs,
                   files, downloaded_file, steps, calls, outcomes, previous, effects>>

\* the loop is over: raw goes to parse_config
LoadConfigReturn ==
    /\ pc = "load_config"
    /\ n_merged = Len(config_files)
    /\ pc' = "parse_config"
    /\ UNCHANGED <<load_vars, probe_vars, config, run, si, ei, errors, exc,
                   exit_code, dirs, files, downloaded_file, steps, calls,
                   outcomes, previous, effects>>

LoadNext ==
    \/ LoadConfigMerge
    \/ LoadConfigReturn

LoadSpec == LoadInit /\ [][LoadNext]_vars

-----------------------------------------------------------------------------
(* verify_encoded_video_duration *)

\* durations the prober reports of a source, in tenths of a second
SrcDurations == {0, 1000, 2500, 3000}

\* durations the prober reports of its encoding: within MaxDelta of the source's
DstDurations(src) == {d \in (src - MaxDelta)..(src + MaxDelta) : d >= 0}

\* verify_encoded_video_duration is entered
ProbeInit ==
    /\ config = None
    /\ pc = "get_src_duration"
    /\ Boot
    /\ Idle

\* src_duration = get_video_duration(src): a prober failure becomes ValueError
GetSrcDuration ==
    /\ pc = "get_src_duration"
    /\ Call("prober", 1)
    /\ \E ok \in BOOLEAN, d \in SrcDurations :
         /\ src_duration' = IF ok THEN d ELSE src_duration
         /\ End("get_src_duration", ok, "get_dst_duration", "ValueError")
    /\ UNCHANGED <<load_vars, dst_duration, config, run, si, ei, errors, exit_code,
                   dirs, files, downloaded_file, outcomes, previous, effects>>

\* dst_duration = get_video_duration(dst)
GetDstDuration ==
    /\ pc = "get_dst_duration"
    /\ Call("prober", 1)
    /\ \E ok \in BOOLEAN, d \in DstDurations(src_duration) :
         /\ dst_duration' = IF ok THEN d ELSE dst_duration
         /\ End("get_dst_duration", ok, "compare", "ValueError")
    /\ UNCHANGED <<load_vars, src_duration, config, run, si, ei, errors, exit_code,
                   dirs, files, downloaded_file, outcomes, previous, effects>>

\* if abs(src_duration - dst_duration) > max(...): raise ValueError
CompareDurations ==
    /\ pc = "compare"
    /\ End("compare", ~DurationMismatch(src_duration, dst_duration),
           "returned", "ValueError")
    /\ UNCHANGED <<load_vars, probe_vars, config, run, si, ei, errors, exit_code,
                   dirs, files, downloaded_file, calls, outcomes, previous, effects>>

ProbeNext ==
    \/ GetSrcDuration
    \/ GetDstDuration
    \/ CompareDurations

ProbeSpec == ProbeInit /\ [][ProbeNext]_vars

-----------------------------------------------------------------------------
(* Vocabulary of the properties *)

PipelineOrder ==
    <<"resolve", "skip_check", "mktemp", "download", "verify_source", "encode",
      "verify_encoded", "verify_duration", "place", "verify_placement", "cleanup">>

PipelinePcs ==
    {PipelineOrder[k] : k \in 1..Len(PipelineOrder)} \cup
    {"done", "skipped", "raised"}

\* series i references a catalog key that is not in the catalog table
Unresolved(i) == config.series[i].catalog \notin DOMAIN config.meta.catalogs

\* the episodes of the configuration, as <<series index, episode index>>
Positions ==
    UNION {{<<i, j>> : j \in 1..Len(config.series[i].episodes)} :
           i \in 1..Len(config.series)}

\* episodes whose pipeline has ended in this run
Attempted == {<<outcomes[k][1], outcomes[k][2]>> : k \in 1..Len(outcomes)}

\* episodes whose pipeline has been started in this run
Started == Attempted \cup (IF pc \in PipelinePcs THEN {<<si, ei>>} ELSE {})

SeriesAt(p) == config.series[p[1]]
EpisodeAt(p) == config.series[p[1]].episodes[p[2]]

\* two distinct episodes of the configuration have the same task identity
Collides ==
    \E p \in Positions, q \in Positions :
        /\ p # q
        /\ task_id(SeriesAt(p), EpisodeAt(p)) = task_id(SeriesAt(q), EpisodeAt(q))

\* name is base_name alone or base_name plus one extension
HasBaseName(name, base_name) ==
    \/ name = base_name
    \/ /\ Len(name) >= Len(base_name) + 2
       /\ SubSeq(name, 1, Len(base_name) + 1) = base_name \o <<".">>
       /\ \A k \in (Len(base_name) + 2)..Len(name) : name[k] # "."

\* the resolved target directory exists and directly holds a file whose base
\* name is "{series.title} {episode.key}"
TargetPresent ==
    LET dir == target_dir(TheEpisode, TheSeries, TheCatalog)
    IN /\ dir \in dirs
       /\ \E k \in 1..Len(files) :
            /\ files[k].dir = dir
            /\ HasBaseName(files[k].name, base_filename(TheSeries, TheEpisode))

\* the files outside the temp directory
DestinationFiles(fs) == SelectSeq(fs, LAMBDA f : ~Under(config.meta.tmp_dir, f.dir))

StepDone(step) == \E k \in 1..Len(steps) : steps[k].step = step /\ steps[k].ok

StepTried(step) == \E k \in 1..Len(steps) : steps[k].step = step

\* a key path that leads nowhere in a tree
Absent == [t |-> "absent", text |-> "", v |-> NoItems]

\* the value a tree holds under a path of keys
RECURSIVE At(_, _)
At(tree, path) ==
    IF path = <<>> THEN tree
    ELSE IF tree.t = "dict" /\ Head(path) \in DOMAIN tree.v
    THEN At(tree.v[Head(path)], Tail(path))
    ELSE Absent

\* the key paths a document can hold: a top-level key, then nested keys
Paths ==
    UNION {{<<key>> \o rest : key \in TopKeys, rest \in [1..n -> NestedKeys]} :
           n \in 0..(MaxDepth - 1)}

IsLeaf(value) == value.t \notin {"absent", "dict"}

\* the empty string, the empty list, zero, false and null
FalsyLeaf(value) ==
    value \in {Leaf("str", ""), Leaf("list", ""), Leaf("int", "0"),
               Leaf("bool", "False"), Leaf("null", "None")}

\* the loop of load_config is about to merge a document, which is Part
Merging == pc = "load_config" /\ n_merged < Len(config_files)

Part == config_files[n_merged + 1]

-----------------------------------------------------------------------------
(* C1 *)

\* C1: once sync has ended, every episode of every series up to the first
\* series whose catalog lookup fails has had its pipeline run, whichever
\* pipelines raised: a raising pipeline never keeps a later episode, of the
\* same or of a later series, from being attempted.
C1_FailureIsolation ==
    (pc = "exit" /\ parse_config(config)) =>
        \A p \in Positions :
            (\A h \in 1..p[1] : ~Unresolved(h)) => p \in Attempted

\* sync has ended after a pipeline failed and an episode of a later series ran
C1_Witness ==
    /\ pc = "exit"
    /\ \E k \in 1..Len(outcomes), l \in 1..Len(outcomes) :
         /\ k < l
         /\ outcomes[k][3] = "Failed"
         /\ outcomes[l][1] > outcomes[k][1]

-----------------------------------------------------------------------------
(* C2 *)

\* C2: when sync has finished its pass, the failure map holds exactly one
\* entry per failed episode, keyed catalog/series/episode, and none for an
\* episode that ended Done or Skipped; the entries number the failed episodes.
C2_OneEntryPerFailure ==
    pc = "report" =>
        LET failed == {k \in 1..Len(outcomes) : outcomes[k][3] = "Failed"}
            KeyOf(k) == ErrorKey(config.meta.catalogs[SeriesAt(outcomes[k]).catalog],
                                 SeriesAt(outcomes[k]), EpisodeAt(outcomes[k]))
        IN /\ Cardinality(DOMAIN errors) = Cardinality(failed)
           /\ \A k \in 1..Len(outcomes) : KeyOf(k) \in DOMAIN errors <=> k \in failed

-----------------------------------------------------------------------------
(* C3 *)

\* C3: a non-empty failure map at the end of sync gives a non-zero process
\* outcome; the outcome is success only when the failure map is empty.
C3_FailureSignalled ==
    pc = "exit" =>
        /\ DOMAIN errors # {} => exit_code # 0
        /\ exit_code = 0 => DOMAIN errors = {}

-----------------------------------------------------------------------------
(* C4 *)

-----------------------------------------------------------------------------
(* C5 *)

\* C5: a pipeline that created its per-task temp directory does not end,
\* Done or Failed, before the removal of that directory has been attempted.
C5_TempDirRemovalAttempted ==
    (pc \in {"done", "raised"} /\ StepDone("mktemp")) => StepTried("cleanup")

-----------------------------------------------------------------------------
(* C6 *)

\* the steps run so far are an initial part of the pipeline's order, each
\* once, and only the last of them can have failed, which ends the pipeline
C6_StepsInOrder ==
    /\ Len(steps) <= Len(PipelineOrder)
    /\ \A k \in 1..Len(steps) : steps[k].step = PipelineOrder[k]
    /\ \A k \in 1..Len(steps) : ~steps[k].ok => (k = Len(steps) /\ pc = "raised")

\* C6: the steps of process_episode run in the order download, verify source,
\* encode, verify encoded, verify duration, place, verify placement, cleanup,
\* each at most once; a step that fails ends the pipeline Failed with no later
\* step run; and a file is written to the destination only by the place step,
\* after all the steps before it have succeeded.
C6_StrictSequence ==
    [][/\ C6_StepsInOrder'
       /\ pc = "raised" =>
            /\ pc' = "sync_episode"
            /\ outcomes' = Append(outcomes, <<si, ei, "Failed">>)
       /\ DestinationFiles(files') # DestinationFiles(files) =>
            /\ pc = "place"
            /\ Len(steps) = 8
            /\ \A k \in 1..8 : steps[k].ok]_vars

\* a pipeline has run all its steps and ended Done
C6_Witness ==
    /\ pc = "done"
    /\ Len(steps) = Len(PipelineOrder)
    /\ DestinationFiles(files) # <<>>

-----------------------------------------------------------------------------
(* C7 *)

\* C7: with a series that references an unknown catalog key, nothing is
\* processed: no pipeline starts, no tool is invoked, no directory is made.
C7_UnknownCatalogRejected ==
    (\E i \in 1..Len(config.series) : Unresolved(i)) =>
        /\ effects = {}
        /\ dirs = {}
        /\ pc \notin PipelinePcs

-----------------------------------------------------------------------------
(* C8 *)

\* C8: an episode that ended Done in the previous run gets past the skip
\* check of this run only as Skipped, with no downloader or encoder call
\* (stated for the episodes with an explicit format, where already it fails).
C8_RerunSkips ==
    \A k \in 1..Len(previous) :
        (/\ previous[k][3] = "Done"
         /\ <<si, ei>> = <<previous[k][1], previous[k][2]>>
         /\ pc \in PipelinePcs \ {"resolve", "skip_check"}
         /\ Truthy(TheEpisode.format)) =>
            /\ pc = "skipped"
            /\ calls.downloader = 0
            /\ calls.encoder = 0

-----------------------------------------------------------------------------
(* C9 *)

\* C9: whenever the downloader is about to be invoked, the episode's download
\* subdirectory holds no file (stated for the configurations in which no two
\* episodes share a task identity, where already it fails).
C9_FreshDownloadDir ==
    (pc = "download" /\ ~Collides) =>
        ListDir(files, downloaded_dir(config.meta, TheSeries, TheEpisode)) = <<>>

-----------------------------------------------------------------------------
(* C10 *)

\* C10: no two distinct episodes of a configuration are processed with the
\* same per-task temp directory (a configuration that would make them do so
\* is rejected at load time, so no such pair ever creates its directory).
C10_UniqueTaskIdentity ==
    \A p \in Positions, q \in Positions :
        (/\ p # q
         /\ <<"mktemp", p[1], p[2]>> \in effects
         /\ <<"mktemp", q[1], q[2]>> \in effects) =>
            task_dir(config.meta, SeriesAt(p), EpisodeAt(p))
                # task_dir(config.meta, SeriesAt(q), EpisodeAt(q))

-----------------------------------------------------------------------------
(* C11 *)

\* C11: the destination is append-only: no step of the pipeline changes,
\* rewrites or removes a file that exists outside the temp directory, and the
\* place step writes only a file name that its target directory did not hold
\* (stated for the pipelines of the episodes with an explicit format, in the
\* configurations in which no two episodes share a task identity, where
\* already it fails).
C11_DestinationAppendOnly ==
    [][(~Collides /\ pc \in PipelinePcs /\ Truthy(TheEpisode.format)) =>
        /\ Len(DestinationFiles(files')) >= Len(DestinationFiles(files))
        /\ SubSeq(DestinationFiles(files'), 1, Len(DestinationFiles(files)))
               = DestinationFiles(files)
        /\ (pc = "place" /\ Effect("place") \in effects') =>
               ReadFile(files, target_dir(TheEpisode, TheSeries, TheCatalog),
                        target_file(TheSeries, TheEpisode, downloaded_file)) = None]_vars

-----------------------------------------------------------------------------
(* C12 *)

\* C12: when a merge step completes, every key path that held a non-mapping
\* value in the destination and holds one in the merged document holds the
\* document's value afterwards if that value is truthy and the destination's
\* earlier value if it is falsy; and a truthy earlier value is never replaced
\* by a falsy later one, at any depth.
C12_ScalarPrecedence ==
    [][(Merging /\ n_merged' = n_merged + 1) =>
        \A p \in Paths :
            LET later == At(Part, p)
                earlier == At(raw, p)
                result == At(raw', p)
            IN /\ (IsLeaf(earlier) /\ IsLeaf(later)) =>
                     result = IF FalsyLeaf(later) THEN earlier ELSE later
               /\ (IsLeaf(earlier) /\ ~FalsyLeaf(earlier)
                     /\ (FalsyLeaf(later) \/ later = EmptyDict)) =>
                     result = earlier]_vars

\* two documents are merged: under a nested key a truthy value of the second
\* has replaced another truthy value of the first, and under another key a
\* truthy value of the first has survived a falsy value of the second
C12_Witness ==
    /\ pc = "load_config"
    /\ n_merged = 2
    /\ \E p \in Paths :
         /\ Len(p) > 1
         /\ IsLeaf(At(config_files[1], p)) /\ ~FalsyLeaf(At(config_files[1], p))
         /\ IsLeaf(At(config_files[2], p)) /\ ~FalsyLeaf(At(config_files[2], p))
         /\ At(config_files[1], p) # At(config_files[2], p)
         /\ At(raw, p) = At(config_files[2], p)
    /\ \E q \in Paths :
         /\ IsLeaf(At(config_files[1], q)) /\ ~FalsyLeaf(At(config_files[1], q))
         /\ FalsyLeaf(At(config_files[2], q))
         /\ At(raw, q) = At(config_files[1], q)

-----------------------------------------------------------------------------
(* C13 *)

\* C13: whenever a document is merged, for every key path that exists in the
\* destination and in the document with values that are not both mappings, a
\* truthy value of the document (a non-empty mapping included) is what the
\* destination holds afterwards, and the merge completes without error.
C13_MergeCases ==
    [][Merging =>
        \A p \in Paths :
            LET later == At(Part, p)
                earlier == At(raw, p)
            IN (/\ earlier # Absent
                /\ later # Absent
                /\ ~(earlier.t = "dict" /\ later.t = "dict")
                /\ ~FalsyLeaf(later)
                /\ later # EmptyDict) =>
                    /\ pc' = "load_config"
                    /\ At(raw', p) = later]_vars

-----------------------------------------------------------------------------
(* C14 *)

\* C14: merging a document into a tree equal to it leaves the tree as it is,
\* and merging a document again right after it has been merged changes
\* nothing; neither merge raises.
C14_MergeIdempotent ==
    [][(Merging /\ (raw = Part \/ (n_merged >= 1 /\ config_files[n_merged] = Part))) =>
        /\ pc' = "load_config"
        /\ n_merged' = n_merged + 1
        /\ raw' = raw]_vars

\* a document has been merged twice on top of a different one, which it changed
C14_Witness ==
    /\ pc = "load_config"
    /\ n_merged = 3
    /\ config_files[2] = config_files[3]
    /\ config_files[1] # config_files[2]
    /\ raw # config_files[1]
    /\ raw # config_files[2]
    /\ \E p \in Paths : Len(p) > 1 /\ At(raw, p) # Absent

-----------------------------------------------------------------------------
(* C15 *)

\* the directories outside the temp directory
DestinationDirs == {d \in dirs : ~Under(config.meta.tmp_dir, d)}

\* d is the one directory made outside the temp directory, and every file
\* outside the temp directory lies in it
ResolvedTo(d) ==
    /\ DestinationDirs = {d}
    /\ \A k \in 1..Len(files) :
         ~Under(config.meta.tmp_dir, files[k].dir) => files[k].dir = d

\* C15: once process_episode has resolved its target directory, the directory
\* it works on is the episode's dir override if that is set, else the series'
\* dir override if that is set, else {catalog.dir}/{series.title}.
C15_DirPrecedence ==
    (pc \in PipelinePcs /\ StepDone("resolve")) =>
        LET E == TheEpisode.dir
            S == TheSeries.dir
            D == TheCatalog.dir \o <<"/">> \o TheSeries.title
        IN /\ E # None => ResolvedTo(E)
           /\ (E = None /\ S # None) => ResolvedTo(S)
           /\ (E = None /\ S = None) => ResolvedTo(D)

\* an episode without override, of a series with one, has been placed
C15_Witness ==
    /\ pc = "done"
    /\ TheEpisode.dir = None
    /\ TheSeries.dir = <<"/s">>
    /\ TheCatalog.dir = <<"/srv">>
    /\ \E k \in 1..Len(files) : files[k].dir = <<"/s">>

-----------------------------------------------------------------------------
(* C16 *)

\* verify_encoded_video_duration has compared the two durations
Compared == StepTried("compare")

\* C16 as stated: with a source of 100 s, an encoding of 94.9 s passes the
\* duration check and one of 93.9 s fails it.
C16_ToleranceExample ==
    (Compared /\ src_duration = 1000) =>
        /\ dst_duration = 949 => pc = "returned"
        /\ dst_duration = 939 => pc = "raised"

\* C16 as amended: with a source of 100 s, an encoding of 95.0 s passes the
\* duration check (5.0 s off, the floor itself), and encodings of 94.9 s
\* (5.1 s off) and of 93.9 s fail it.
C16_ToleranceExampleAmended ==
    (Compared /\ src_duration = 1000) =>
        /\ dst_duration = 950 => pc = "returned"
        /\ dst_duration = 949 => (pc = "raised" /\ exc = "ValueError")
        /\ dst_duration = 939 => (pc = "raised" /\ exc = "ValueError")

\* a source of 100 s has been compared with an encoding of 94.9 s
C16_Witness ==
    /\ Compared
    /\ src_duration = 1000
    /\ dst_duration = 949
    /\ pc = "raised"

-----------------------------------------------------------------------------
(* C17 *)

\* C17: the duration check fails exactly when the two durations differ by
\* strictly more than the larger of 5 s and 2 % of the source's duration
\* (in tenths of a second: 100 * diff > max(5000, 2 * src)).
C17_ToleranceRule ==
    Compared =>
        LET diff == IF src_duration >= dst_duration
                    THEN src_duration - dst_duration
                    ELSE dst_duration - src_duration
            floor == 100 * 50
            share == 2 * src_duration
        IN (pc = "raised") <=>
               (100 * diff > (IF floor >= share THEN floor ELSE share))

\* a source of 300 s and an encoding 6.0 s longer, 2 % of the source and more
\* than 2 % less of the encoding's own duration, have passed the check
C17_Witness ==
    /\ Compared
    /\ src_duration = 3000
    /\ dst_duration = 3060
    /\ pc = "returned"

-----------------------------------------------------------------------------
(* C18 *)

\* C18: when the encode step has succeeded, a profile that the table resolves
\* to None or to the empty string has cost no encoder call and has left an
\* encoded file with the bytes of the downloaded file; a profile that the
\* table resolves to arguments has cost one encoder call, with those
\* arguments; and an encoding name that the table does not hold has not been
\* handled as a copy.
C18_ProfileLookup ==
    pc = "verify_encoded" =>
        LET name == TheEpisode.encoding
            table == config.meta.encoding_profiles
            copied ==
                ReadFile(files, encoded_dir(config.meta, TheSeries, TheEpisode),
                         encoded_file(TheEpisode, downloaded_file))
                  = ReadFile(files, downloaded_dir(config.meta, TheSeries, TheEpisode),
                             downloaded_file)
        IN /\ (name \in DOMAIN table /\ table[name] \in {None, <<>>}) =>
                 (calls.encoder = 0 /\ copied)
           /\ (name \in DOMAIN table /\ table[name] \notin {None, <<>>}) =>
                 (calls.encoder = 1 /\ calls.encoding_args = table[name])
           /\ name \notin DOMAIN table => ~(calls.encoder = 0 /\ copied)

-----------------------------------------------------------------------------
(* C19 *)

\* the file the pipeline places is in the target directory
TargetPlaced(fs) ==
    \E k \in 1..Len(fs) :
        /\ fs[k].dir = target_dir(TheEpisode, TheSeries, TheCatalog)
        /\ fs[k].name = target_file(TheSeries, TheEpisode, downloaded_file)

\* C19: a cleanup step that leaves the per-task temp directory in place (its
\* removal failed) raises nothing and ends the pipeline Done, with the files
\* and the failure map as they were and the target file in place; and a
\* pipeline that is Done is recorded as Done, never in the failure map.
C19_CleanupNeverFails ==
    [][/\ (pc = "cleanup" /\ task_dir(config.meta, TheSeries, TheEpisode) \in dirs') =>
            /\ pc' = "done"
            /\ exc' = ""
            /\ files' = files
            /\ errors' = errors
            /\ TargetPlaced(files')
       /\ pc = "done" =>
            /\ pc' = "sync_episode"
            /\ outcomes' = Append(outcomes, <<si, ei, "Done">>)
            /\ errors' = errors
            /\ files' = files]_vars

\* a pipeline is Done with its temp directory still there and its target placed
C19_Witness ==
    /\ pc = "done"
    /\ StepDone("cleanup")
    /\ task_dir(config.meta, TheSeries, TheEpisode) \in dirs
    /\ TargetPlaced(files)
    /\ DOMAIN errors = {}

-----------------------------------------------------------------------------
(* C20 *)

\* position p comes before position q: an earlier series, or the same series
\* and an earlier episode
Before(p, q) == p[1] < q[1] \/ (p[1] = q[1] /\ p[2] < q[2])

\* C20: while a pipeline is in progress, the episodes whose pipeline has ended
\* are exactly those that come before it in the configuration (series in
\* configuration order, episodes in declared order); every side effect is a
\* step of the one episode in progress; and an outcome is recorded only for
\* the episode in progress, once its pipeline is at Done, Skipped or Failed.
C20_OneEpisodeAtATimeInOrder ==
    [][/\ pc' \in PipelinePcs =>
            /\ <<si', ei'>> \in Positions
            /\ Attempted' = {p \in Positions : Before(p, <<si', ei'>>)}
            /\ \A e \in effects' : <<e[2], e[3]>> \in Attempted' \cup {<<si', ei'>>}
       /\ effects' # effects /\ effects' # {} =>
            /\ pc \in PipelinePcs
            /\ \A e \in effects' \ effects : <<e[2], e[3]>> = <<si, ei>>
       /\ outcomes' # outcomes /\ outcomes' # <<>> =>
            /\ pc \in {"done", "skipped", "raised"}
            /\ \E o \in {"Done", "Skipped", "Failed"} :
                 outcomes' = Append(outcomes, <<si, ei, o>>)]_vars

\* a second episode (the next of its series, or the first of the next series)
\* is at its cleanup after the first one ended, and both had side effects
C20_Witness ==
    /\ pc = "cleanup"
    /\ Len(outcomes) = 1
    /\ Attempted = {<<1, 1>>}
    /\ {<<e[2], e[3]>> : e \in effects} = {<<1, 1>>, <<si, ei>>}
    /\ <<si, ei>> # <<1, 1>>

-----------------------------------------------------------------------------
(* C21 *)

\* the target directory directly holds a file with the episode's base name
BaseNameAtTarget(fs) ==
    \E k \in 1..Len(fs) :
        /\ fs[k].dir = target_dir(TheEpisode, TheSeries, TheCatalog)
        /\ HasBaseName(fs[k].name, base_filename(TheSeries, TheEpisode))

\* C21: a pipeline that raised leaves in the target directory no file with the
\* episode's base name that was not there before the call (stated for the
\* first pipeline of the first run, before which the file system is empty);
\* and an episode that ended Failed in the previous run is not Skipped in this
\* one (stated for the configurations of a single episode, where nothing else
\* writes to its target directory).
C21_FailedLeavesNothing ==
    /\ (pc = "raised" /\ run = 1 /\ outcomes = <<>>) => ~BaseNameAtTarget(files)
    /\ \A k \in 1..Len(previous) :
        (/\ Cardinality(Positions) = 1
         /\ previous[k][3] = "Failed"
         /\ <<si, ei>> = <<previous[k][1], previous[k][2]>>) =>
            pc # "skipped"

====
